---- MODULE Spec2Model ----
(***************************************************************************)
(* Device State Synchronization Engine of the Autelis/Jandy node server    *)
(* (autelis-poly.py): the Controller's entity model, startup discovery,    *)
(* the reconcile pass (update_node_states), the delta event router         *)
(* (set_node_state), the unit migration (change_temp_units) and the        *)
(* supervision of the status monitoring thread (start / longPoll).         *)
(*                                                                         *)
(* Three kinds of threads touch the Controller: the thread running         *)
(* start(), the host's poller thread (shortPoll, longPoll, query) and the  *)
(* status monitoring threads, whose callback is set_node_state.  The code  *)
(* takes no lock, so every driver write, every node-definition update and  *)
(* every Thread call is one step, and the steps of the threads interleave. *)
(***************************************************************************)
EXTENDS Integers, Sequences, FiniteSets, TLC

\* ------------------------------------------------------------------ bounds
MaxPolls == 2        \* reconcile passes (update_node_states calls) in a run
MaxEvents == 1       \* delta events delivered by the event stream in a run
MaxThreads == 3      \* Thread objects in existence at one time

\* What a run may hold.  A run is one of: passes only; passes and events;
\* passes that may begin before start() has finished; events on a connection
\* that may drop at any time.  polls and events count what is left, early lets the
\* host poll before start() has finished, drops lets the connection drop.
Budgets ==
    { [polls |-> MaxPolls, events |-> 0, early |-> FALSE, drops |-> FALSE],
      [polls |-> MaxPolls - 1, events |-> MaxEvents, early |-> FALSE, drops |-> FALSE],
      [polls |-> MaxPolls - 1, events |-> 0, early |-> TRUE, drops |-> FALSE],
      [polls |-> 0, events |-> MaxEvents, early |-> FALSE, drops |-> TRUE] }

\* --------------------------------------------------------- program constants
ISY_INDEX_UOM == 25
ISY_TEMP_F_UOM == 17
ISY_TEMP_C_UOM == 4
VBAT_CONST == 1464   \* 0.01464, in units of 1e-5

\* ------------------------------------------------------------------- data
Blank == "blank"     \* element.text of an empty element (None)
NoAddr == "-"
CONTROLLER == "controller"

TempUnits == {"F", "C"}

\* the equipment elements of the status document, in document order
EquipOrder == <<"pump1", "poolht", "poolht2", "spaht", "solarht">>
NumEquip == Len(EquipOrder)
Addrs == {EquipOrder[i] : i \in 1..NumEquip}
TempAddrs == {"poolht", "poolht2", "spaht", "solarht"}

\* int(text): defined on numerals only; None and other text raise
IntOf == ("0" :> 0) @@ ("1" :> 1) @@ ("2" :> 2) @@ ("3" :> 3) @@ ("7" :> 7)
      @@ ("15" :> 15) @@ ("21" :> 21) @@ ("24" :> 24) @@ ("28" :> 28)
      @@ ("29" :> 29) @@ ("36" :> 36) @@ ("37" :> 37) @@ ("60" :> 60)
      @@ ("70" :> 70) @@ ("75" :> 75) @@ ("84" :> 84) @@ ("85" :> 85)
      @@ ("90" :> 90) @@ ("99" :> 99) @@ ("100" :> 100)
IsInt(t) == t \in DOMAIN IntOf
ToInt(t) == IntOf[t]
\* float(text) * _VBAT_CONST, in units of 1e-5
ToVolt(t) == IntOf[t] * VBAT_CONST

\* equipment blocks a status document may carry (raw state or blank)
EquipmentBlocks == <<
    [pump1 |-> "1", poolht |-> "2", poolht2 |-> "1", spaht |-> Blank, solarht |-> Blank],
    [pump1 |-> Blank, poolht |-> Blank, poolht2 |-> Blank, spaht |-> "0", solarht |-> "3"] >>

\* system and temp blocks a status document may carry
ValueBlocks == <<
    [runstate |-> "1", opmode |-> "0", lowbat |-> "0", vbat |-> "100", airtemp |-> "70",
     poolsp |-> "85", poolsp2 |-> "60", spasp |-> "99",
     pooltemp |-> "84", spatemp |-> "90", solartemp |-> "75"],
    [runstate |-> "2", opmode |-> "1", lowbat |-> "1", vbat |-> "90", airtemp |-> "21",
     poolsp |-> "29", poolsp2 |-> "15", spasp |-> "37",
     pooltemp |-> "28", spatemp |-> "36", solartemp |-> Blank] >>

\* a status document (statusXML), by the blocks it carries
Snapshots == [tempunits : TempUnits, eq : DOMAIN EquipmentBlocks, tv : DOMAIN ValueBlocks]
NoSnap == [tempunits |-> "-", eq |-> 0, tv |-> 0]
EquipText(s, a) == EquipmentBlocks[s.eq][a]
ValueText(s, name) == ValueBlocks[s.tv][name]

\* (element, value) tuples the event stream may deliver
Events == ({"runstate", "vbat", "airtemp"} \X {"7"})
          \cup ({"poolsp", "poolsp2", "spasp", "pooltemp", "spatemp", "solartemp"} \X {"7"})
          \cup ({"runstate", "poolsp"} \X {"x"})
          \cup ({"model"} \X {"x"})
          \cup ({"tempunits"} \X TempUnits)
          \cup ({"poolht"} \X {"0", "1", "2", "3"})
          \cup ({"spaht"} \X {"2"})
          \cup ({"pump1", "aux9"} \X {"1"})
NoEvent == <<"-", "-">>

\* ------------------------------------------------------------------ state
VARIABLES
    procAlive,        \* the process is running
    autelis,          \* self.autelis is set (not None)
    ignoresolar,      \* self.ignoresolar
    currentTempUnit,  \* self.currentTempUnit
    ctl,              \* the Controller node's drivers and the uom of CLITEMP
    nodes,            \* self.nodes: address -> node (NoNode when absent)
    hub,              \* the node definitions the hub holds (addNode / updateNode)
    out,              \* the last message sent to the hub
    start,            \* the thread running start()
    poll,             \* the host's poller thread (shortPoll, longPoll, query)
    pollDue,          \* (currentTime - lastPoll) >= pollingInterval
    threads,          \* the Thread objects of the status monitor
    threadMonitor,    \* self.threadMonitor (0 is None)
    budget            \* what the run may still hold (see Budgets)

vars == <<procAlive, autelis, ignoresolar, currentTempUnit, ctl, nodes, hub, out,
          start, poll, pollDue, threads, threadMonitor, budget>>

shared == <<currentTempUnit, ctl, nodes, hub, out>>

\* ----------------------------------------------------------------- nodes
NoNode == [id |-> "none"]
UomOf(unit) == IF unit = "C" THEN ISY_TEMP_C_UOM ELSE ISY_TEMP_F_UOM
\* TempIdOf with the id of the Celsius node definition misspelt
TempIdOfMisspelt(unit) == IF unit = "C" THEN "TEMP_CONTROLC" ELSE "TEMP_CONTROL"
TempIdOf(unit) == IF unit = "C" THEN "TEMP_CONTROL_C" ELSE "TEMP_CONTROL"

\* Equipment(controller, primary, addr, name)
NewEquipment == [id |-> "EQUIPMENT", uom |-> ISY_INDEX_UOM, ST |-> 0]

\* TempControl(controller, primary, addr, name, tempUnit)
NewTempControl(tempUnit) ==
    [id |-> TempIdOf(tempUnit), uom |-> UomOf(tempUnit),
     ST |-> 0, CLISPH |-> 0, CLIMD |-> 0, CLIHCS |-> 0, CLISPC |-> 0]

\* the Controller node's drivers
NewController ==
    [ST |-> 0, GV0 |-> 0, GV1 |-> 0, GV2 |-> 0, BATLVL |-> 0, CLITEMP |-> 0,
     uom |-> ISY_TEMP_F_UOM]

Live == {a \in Addrs : nodes[a] # NoNode}
IsTemp(a) == nodes[a].id \in {"TEMP_CONTROL", "TEMP_CONTROL_C"}
Kind(a) == IF nodes[a] = NoNode THEN "none"
           ELSE IF IsTemp(a) THEN "TempControl" ELSE "Equipment"

NoDef == [id |-> "none", uom |-> 0]
NoMsg == [kind |-> "none", by |-> "-", addr |-> NoAddr, driver |-> "-", value |-> 0]

\* --------------------------------------------------- writes on the model
\* One step of a thread performs at most one write; a write is described by
\* a record and applied by Apply.
WNone == [op |-> "none", by |-> "-", addr |-> NoAddr, driver |-> "-", value |-> 0, unit |-> "-", report |-> FALSE]
WSetDriver(a, d, v, r) == [WNone EXCEPT !.op = "setDriver", !.addr = a, !.driver = d, !.value = v, !.report = r]
WSetTempUnit(a, u) == [WNone EXCEPT !.op = "set_temp_unit", !.addr = a, !.unit = u]
WUpdateNode(a) == [WNone EXCEPT !.op = "updateNode", !.addr = a]
WCtlUom(u) == [WNone EXCEPT !.op = "ctl_uom", !.unit = u]
WCtlUnit(u) == [WNone EXCEPT !.op = "ctl_unit", !.unit = u]
WAddNode(a, u) == [WNone EXCEPT !.op = "addNode", !.addr = a, !.unit = u]

\* SetDriver with the report flag ignored
SetDriverAlwaysReports(w) ==
    /\ IF w.addr = CONTROLLER
       THEN /\ ctl' = [ctl EXCEPT ![w.driver] = w.value]
            /\ nodes' = nodes
       ELSE /\ nodes' = IF w.driver \in DOMAIN nodes[w.addr]
                        THEN [nodes EXCEPT ![w.addr][w.driver] = w.value]
                        ELSE nodes
            /\ ctl' = ctl
    /\ out' = [kind |-> "report", by |-> w.by, addr |-> w.addr,
               driver |-> w.driver, value |-> w.value]
    /\ UNCHANGED <<hub, currentTempUnit>>

\* node.setDriver(driver, value, report): the value of the driver, when the
\* node has it, and a change notification to the hub when report is set
SetDriver(w) ==
    /\ IF w.addr = CONTROLLER
       THEN /\ ctl' = [ctl EXCEPT ![w.driver] = w.value]
            /\ nodes' = nodes
       ELSE /\ nodes' = IF w.driver \in DOMAIN nodes[w.addr]
                        THEN [nodes EXCEPT ![w.addr][w.driver] = w.value]
                        ELSE nodes
            /\ ctl' = ctl
    /\ out' = IF w.report
              THEN [kind |-> "report", by |-> w.by, addr |-> w.addr,
                    driver |-> w.driver, value |-> w.value]
              ELSE out
    /\ UNCHANGED <<hub, currentTempUnit>>

\* TempControl.set_temp_unit(tempUnit): the node definition id and the uom of
\* the drivers ST, CLISPH, CLISPC; no driver value
TempSetTempUnit(w) ==
    /\ nodes' = [nodes EXCEPT ![w.addr].id = TempIdOf(w.unit), ![w.addr].uom = UomOf(w.unit)]
    /\ UNCHANGED <<ctl, hub, currentTempUnit, out>>

\* self.updateNode(node): the hub receives the node's definition
UpdateNode(w) ==
    /\ hub' = [hub EXCEPT ![w.addr] =
                  IF w.addr = CONTROLLER
                  THEN [id |-> "CONTROLLER", uom |-> ctl.uom]
                  ELSE [id |-> nodes[w.addr].id, uom |-> nodes[w.addr].uom]]
    /\ out' = [NoMsg EXCEPT !.kind = "updateNode", !.by = w.by, !.addr = w.addr]
    /\ UNCHANGED <<ctl, nodes, currentTempUnit>>

\* Controller.set_temp_unit, the driver loop: the uom of CLITEMP
CtlSetUom(w) ==
    /\ ctl' = [ctl EXCEPT !.uom = UomOf(w.unit)]
    /\ UNCHANGED <<nodes, hub, currentTempUnit, out>>

\* Controller.set_temp_unit, its last statement
CtlSetUnit(w) ==
    /\ currentTempUnit' = w.unit
    /\ UNCHANGED <<ctl, nodes, hub, out>>

\* TempControl(...) or Equipment(...) followed by self.addNode(node)
AddNode(w) ==
    LET node == IF w.addr \in TempAddrs THEN NewTempControl(w.unit) ELSE NewEquipment
    IN /\ nodes' = [nodes EXCEPT ![w.addr] = node]
       /\ hub' = [hub EXCEPT ![w.addr] = [id |-> node.id, uom |-> node.uom]]
       /\ out' = [NoMsg EXCEPT !.kind = "addNode", !.by = w.by, !.addr = w.addr]
       /\ UNCHANGED <<ctl, currentTempUnit>>

ApplyWrite(w) ==
    CASE w.op = "setDriver" -> SetDriver(w)
      [] w.op = "set_temp_unit" -> TempSetTempUnit(w)
      [] w.op = "updateNode" -> UpdateNode(w)
      [] w.op = "ctl_uom" -> CtlSetUom(w)
      [] w.op = "ctl_unit" -> CtlSetUnit(w)
      [] w.op = "addNode" -> AddNode(w)
      [] OTHER -> UNCHANGED <<ctl, nodes, hub, currentTempUnit, out>>

\* the write w, made by thread `by` (start, poll or listener)
Apply(by, w) == ApplyWrite([w EXCEPT !.by = by])

\* ------------------------------------------------- unit migration frames
\* The position of a thread inside change_temp_units / set_temp_unit:
\* tgt the new unit, i the index of the node being visited, ph the statement,
\* n the size of self.nodes when the iteration over it began.
NoMig == [tgt |-> "-", i |-> 0, ph |-> "-", n |-> 0]
RaisedMig == [NoMig EXCEPT !.ph = "raised"]

\* the next TempControl node at or after position i of self.nodes (0: none)
NextTemp(i) ==
    LET S == {j \in i..NumEquip : IsTemp(EquipOrder[j])}
    IN IF S = {} THEN 0 ELSE CHOOSE j \in S : \A k \in S : j <= k

\* Controller.set_temp_unit(tempUnit), entered
EnterSetTempUnit(u) == [tgt |-> u, i |-> 0, ph |-> "cset", n |-> 0]

\* change_temp_units(newTempUnit), entered: the loop over self.nodes reaches
\* its first TempControl node, or ends and the Controller's own unit follows
EnterChangeTempUnits(u) ==
    LET j == NextTemp(1)
    IN IF j = 0 THEN EnterSetTempUnit(u)
       ELSE [tgt |-> u, i |-> j, ph |-> "set", n |-> Cardinality(Live)]

\* the write of the statement at position m
MigWrite(m) ==
    CASE m.ph = "set" -> WSetTempUnit(EquipOrder[m.i], m.tgt)
      [] m.ph = "upd" -> WUpdateNode(EquipOrder[m.i])
      [] m.ph = "cset" -> WCtlUom(m.tgt)
      [] m.ph = "cupd" -> WUpdateNode(CONTROLLER)
      [] m.ph = "cunit" -> WCtlUnit(m.tgt)

\* the position after the statement at m: NoMig when the migration has
\* returned, RaisedMig when the dictionary changed size during the iteration
MigNext(m) ==
    CASE m.ph = "set" -> [m EXCEPT !.ph = "upd"]
      [] m.ph = "upd" ->
            IF Cardinality(Live) # m.n THEN RaisedMig
            ELSE LET j == NextTemp(m.i + 1)
                 IN IF j = 0 THEN EnterSetTempUnit(m.tgt)
                    ELSE [m EXCEPT !.i = j, !.ph = "set"]
      [] m.ph = "cset" -> [m EXCEPT !.ph = "cupd"]
      [] m.ph = "cupd" -> [m EXCEPT !.ph = "cunit"]
      [] m.ph = "cunit" -> NoMig

\* ------------------------------------------------------- Thread objects
Slots == 1..MaxThreads
Unborn == [st |-> "unborn", pc |-> "-", ev |-> NoEvent, mig |-> NoMig, ret |-> "-"]
Created == [Unborn EXCEPT !.st = "created"]
FreeSlots == {t \in Slots : threads[t].st = "unborn"}
MonitorAlive == threadMonitor # 0 /\ threads[threadMonitor].st = "alive"
AliveThreads == {t \in Slots : threads[t].st = "alive"}

\* self.threadMonitor = threading.Thread(target=status_listener, ...): a new
\* Thread object replaces the handle; the object it replaces is garbage
\* unless it is running
NewThread ==
    /\ FreeSlots # {}
    /\ LET t == CHOOSE x \in FreeSlots : \A y \in FreeSlots : x <= y
       IN /\ threads' = [s \in Slots |->
                            IF s = t THEN Created
                            ELSE IF s = threadMonitor /\ threads[s].st # "alive" THEN Unborn
                            ELSE threads[s]]
          /\ threadMonitor' = t

\* self.threadMonitor.daemon = True raises RuntimeError once the thread was started
DaemonRaises == threads[threadMonitor].st # "created"
\* self.threadMonitor.start() raises RuntimeError when the thread was started before
StartRaises == threads[threadMonitor].st # "created"
ThreadStart ==
    threads' = [threads EXCEPT ![threadMonitor] = [Created EXCEPT !.st = "alive", !.pc = "recv"]]

\* ------------------------------------------------------- the start thread
NoStart == [pc |-> "init", snap |-> NoSnap, i |-> 0, mig |-> NoMig]

\* Creates without the ignore_solar flag
CreatesWithSolar(s, a) == EquipText(s, a) # Blank
\* discover_nodes, line 310: the element gets a node
Creates(s, a) == ~ (EquipText(s, a) = Blank \/ (a = "solarht" /\ ignoresolar))
\* the next equipment element at or after position i for which discover_nodes
\* creates a node (0: none)
NextCreate(s, i) ==
    LET S == {j \in i..NumEquip : Creates(s, EquipOrder[j])}
    IN IF S = {} THEN 0 ELSE CHOOSE j \in S : \A k \in S : j <= k

\* what discover_nodes reads of the status document: the unit and the
\* equipment block
Discovered(s) == [s EXCEPT !.tv = 0]

\* discover_nodes at the equipment loop, or returned to start()
AtEquipment(s, i) ==
    LET j == NextCreate(s, i)
    IN IF j = 0 THEN [NoStart EXCEPT !.pc = "mk_thread", !.snap = s]
       ELSE [NoStart EXCEPT !.pc = "disc_eq", !.snap = s, !.i = j]

\* start(), lines 214-235: the configuration is read and self.autelis is set
StartConfig ==
    /\ procAlive /\ start.pc = "init"
    /\ autelis' = TRUE
    /\ \E b \in BOOLEAN : ignoresolar' = b
    /\ start' = [start EXCEPT !.pc = "discover"]
    /\ UNCHANGED <<procAlive, currentTempUnit, ctl, nodes, hub, out, poll, pollDue,
                   threads, threadMonitor, budget>>

\* discover_nodes: no status document; sys.exit raises SystemExit in the
\* calling thread, which ends the process only when that is the main thread
DiscoverFails ==
    /\ procAlive /\ start.pc = "discover"
    /\ start' = [start EXCEPT !.pc = "exited"]
    /\ \E b \in BOOLEAN : procAlive' = b
    /\ UNCHANGED <<autelis, ignoresolar, currentTempUnit, ctl, nodes, hub, out, poll, pollDue,
                   threads, threadMonitor, budget>>

\* discover_nodes: the status document and the comparison of its unit
DiscoverFetch ==
    /\ procAlive /\ start.pc = "discover"
    /\ \E s \in Snapshots :
          start' = IF s.tempunits # currentTempUnit
                   THEN [pc |-> "disc_unit", snap |-> Discovered(s), i |-> 0,
                         mig |-> EnterSetTempUnit(s.tempunits)]
                   ELSE AtEquipment(Discovered(s), 1)
    /\ UNCHANGED <<procAlive, autelis, ignoresolar, currentTempUnit, ctl, nodes, hub, out,
                   poll, pollDue, threads, threadMonitor, budget>>

\* discover_nodes: self.set_temp_unit(tempUnit), one statement
DiscoverSetUnit ==
    /\ procAlive /\ start.pc = "disc_unit"
    /\ Apply("start", MigWrite(start.mig))
    /\ start' = IF MigNext(start.mig) = NoMig
                THEN AtEquipment(start.snap, 1)
                ELSE [start EXCEPT !.mig = MigNext(start.mig)]
    /\ UNCHANGED <<procAlive, autelis, ignoresolar, poll, pollDue,
                   threads, threadMonitor, budget>>

\* discover_nodes: the node of one equipment element is created and added
DiscoverElement ==
    /\ procAlive /\ start.pc = "disc_eq"
    /\ Apply("start", WAddNode(EquipOrder[start.i], start.snap.tempunits))
    /\ start' = AtEquipment(start.snap, start.i + 1)
    /\ UNCHANGED <<procAlive, autelis, ignoresolar, poll, pollDue,
                   threads, threadMonitor, budget>>

\* start(), line 241
StartNewThread ==
    /\ procAlive /\ start.pc = "mk_thread"
    /\ NewThread
    /\ start' = [NoStart EXCEPT !.pc = "set_daemon"]
    /\ UNCHANGED <<procAlive, autelis, ignoresolar, currentTempUnit, ctl, nodes, hub, out,
                   poll, pollDue, budget>>

\* start(), line 242
StartSetDaemon ==
    /\ procAlive /\ start.pc = "set_daemon"
    /\ start' = [start EXCEPT !.pc = IF DaemonRaises THEN "raised" ELSE "start_thread"]
    /\ UNCHANGED <<procAlive, autelis, ignoresolar, currentTempUnit, ctl, nodes, hub, out,
                   poll, pollDue, threads, threadMonitor, budget>>

\* start(), line 243
StartStartThread ==
    /\ procAlive /\ start.pc = "start_thread"
    /\ IF StartRaises
       THEN /\ start' = [start EXCEPT !.pc = "raised"]
            /\ threads' = threads
       ELSE /\ start' = [start EXCEPT !.pc = "done"]
            /\ ThreadStart
    /\ UNCHANGED <<procAlive, autelis, ignoresolar, currentTempUnit, ctl, nodes, hub, out,
                   poll, pollDue, threadMonitor, budget>>


\* ------------------------------------------------------ the poller thread
NoPoll == [pc |-> "idle", op |-> "-", report |-> FALSE, snap |-> NoSnap,
           i |-> 0, k |-> 0, mig |-> NoMig, res |-> "-"]

StartOver == start.pc \in {"done", "exited", "raised"}

\* the Controller drivers a reconcile pass writes, in order, and the system
\* or temp element each is read from
CtlDrivers == <<"GV0", "GV1", "GV2", "BATLVL", "CLITEMP">>
CtlNames == <<"runstate", "opmode", "lowbat", "vbat", "airtemp">>
CtlValue(name, text) == IF name = "vbat" THEN ToVolt(text) ELSE ToInt(text)

\* the setpoint and current-temperature elements of a temp control address
SetPointName(a) ==
    CASE a = "poolht" -> "poolsp"
      [] a = "poolht2" -> "poolsp2"
      [] a = "spaht" -> "spasp"
      [] a = "solarht" -> "poolsp"
CurrentTempName(a) ==
    CASE a = "poolht" -> "pooltemp"
      [] a = "poolht2" -> "pooltemp"
      [] a = "spaht" -> "spatemp"
      [] a = "solarht" -> "solartemp"

\* ModeDrivers with the states 1 (enabled) and 2 (heating) exchanged
ModeDriversExchanged(state) ==
    IF state = "0" THEN <<0, 0>>
    ELSE IF state = "1" THEN <<1, 1>>
    ELSE IF state = "2" THEN <<1, 0>>
    ELSE <<>>

\* TempControl.update_mode_drivers(state): the values of <<CLIMD, CLIHCS>>
\* it writes, or <<>> when it writes nothing
ModeDrivers(state) ==
    IF state = "0" THEN <<0, 0>>
    ELSE IF state = "1" THEN <<1, 0>>
    ELSE IF state = "2" THEN <<1, 1>>
    ELSE <<>>

\* update_node_states returns to its caller (res "ok", "skipped") or raises
\* (res "raised")
PassEnd(res) == [poll EXCEPT !.pc = "ret", !.i = 0, !.k = 0, !.mig = NoMig, !.res = res]

\* update_node_states, lines 352-356: the Controller values are parsed
\* before the first of them is written
ParsesController(s) == \A j \in 1..Len(CtlNames) : IsInt(ValueText(s, CtlNames[j]))
AfterUnits ==
    IF ParsesController(poll.snap)
    THEN [poll EXCEPT !.pc = "uns_ctl", !.i = 1, !.k = 0, !.mig = NoMig]
    ELSE PassEnd("raised")

\* the equipment loop moves on from element i
AfterElement(i) ==
    IF i < NumEquip
    THEN [poll EXCEPT !.pc = "uns_eq", !.i = i + 1, !.k = 0]
    ELSE PassEnd("ok")

\* shortPoll, lines 262-268: nothing to do yet
ShortPollIdle ==
    /\ procAlive /\ poll.pc = "idle"
    /\ ~ autelis \/ ~ pollDue
    /\ UNCHANGED vars

\* shortPoll, line 272: update_node_states(True)
ShortPoll ==
    /\ procAlive /\ poll.pc = "idle"
    /\ autelis /\ pollDue
    /\ budget.polls > 0 /\ (budget.early \/ StartOver)
    /\ poll' = [NoPoll EXCEPT !.pc = "uns_fetch", !.op = "shortPoll", !.report = TRUE]
    /\ budget' = [budget EXCEPT !.polls = @ - 1]
    /\ UNCHANGED <<procAlive, autelis, ignoresolar, currentTempUnit, ctl, nodes, hub, out,
                   start, pollDue, threads, threadMonitor>>

\* shortPoll, line 273: self.lastPoll = currentTime, unless the pass raised
ShortPollReturn ==
    /\ procAlive /\ poll.pc = "ret" /\ poll.op = "shortPoll"
    /\ poll' = NoPoll
    /\ pollDue' = IF poll.res = "raised" THEN pollDue ELSE FALSE
    /\ UNCHANGED <<procAlive, autelis, ignoresolar, currentTempUnit, ctl, nodes, hub, out,
                   start, threads, threadMonitor, budget>>

\* query: update_node_states(False); self.autelis is None before start()
Query ==
    /\ procAlive /\ poll.pc = "idle"
    /\ budget.polls > 0 /\ (budget.early \/ StartOver)
    /\ poll' = IF autelis
               THEN [NoPoll EXCEPT !.pc = "uns_fetch", !.op = "query"]
               ELSE [NoPoll EXCEPT !.pc = "ret", !.op = "query", !.res = "raised"]
    /\ budget' = [budget EXCEPT !.polls = @ - 1]
    /\ UNCHANGED <<procAlive, autelis, ignoresolar, currentTempUnit, ctl, nodes, hub, out,
                   start, pollDue, threads, threadMonitor>>

\* query: reportDrivers of the nodes, unless the pass raised
QueryReport ==
    /\ procAlive /\ poll.pc = "ret" /\ poll.op = "query"
    /\ poll' = NoPoll
    /\ out' = IF poll.res = "raised" THEN out
              ELSE [NoMsg EXCEPT !.kind = "reportDrivers", !.by = "poll"]
    /\ UNCHANGED <<procAlive, autelis, ignoresolar, currentTempUnit, ctl, nodes, hub,
                   start, pollDue, threads, threadMonitor, budget>>

\* UnsNoStatus without the write of GV0
UnsNoStatusKeepsRunState ==
    /\ procAlive /\ poll.pc = "uns_fetch"
    /\ poll' = PassEnd("skipped")
    /\ UNCHANGED <<procAlive, autelis, ignoresolar, currentTempUnit, ctl, nodes, hub, out,
                   start, pollDue, threads, threadMonitor, budget>>

\* update_node_states, lines 332-336: no status document
UnsNoStatus ==
    /\ procAlive /\ poll.pc = "uns_fetch"
    /\ Apply("poll", WSetDriver(CONTROLLER, "GV0", 0, poll.report))
    /\ poll' = PassEnd("skipped")
    /\ UNCHANGED <<procAlive, autelis, ignoresolar, start, pollDue, threads, threadMonitor,
                   budget>>

\* update_node_states, line 332: a status document
UnsFetch ==
    /\ procAlive /\ poll.pc = "uns_fetch"
    /\ \E s \in Snapshots : poll' = [poll EXCEPT !.pc = "uns_units", !.snap = s]
    /\ UNCHANGED <<procAlive, autelis, ignoresolar, currentTempUnit, ctl, nodes, hub, out,
                   start, pollDue, threads, threadMonitor, budget>>

\* UnitDiffers with the unit compared to the initial one, not the current one
UnitDiffersFromInitial(tempUnit) == tempUnit # "F"
\* update_node_states, lines 347-349: the unit of the document is compared
\* with self.currentTempUnit and change_temp_units is entered when they differ
UnitDiffers(tempUnit) == tempUnit # currentTempUnit
UnsUnits ==
    /\ procAlive /\ poll.pc = "uns_units"
    /\ poll' = IF UnitDiffers(poll.snap.tempunits)
               THEN [poll EXCEPT !.pc = "ctu",
                                 !.mig = EnterChangeTempUnits(poll.snap.tempunits)]
               ELSE AfterUnits
    /\ UNCHANGED <<procAlive, autelis, ignoresolar, currentTempUnit, ctl, nodes, hub, out,
                   start, pollDue, threads, threadMonitor, budget>>

\* change_temp_units called by update_node_states, one statement
UnsChangeTempUnits ==
    /\ procAlive /\ poll.pc = "ctu"
    /\ Apply("poll", MigWrite(poll.mig))
    /\ LET m == MigNext(poll.mig)
       IN poll' = IF m = NoMig THEN AfterUnits
                  ELSE IF m = RaisedMig THEN PassEnd("raised")
                  ELSE [poll EXCEPT !.mig = m]
    /\ UNCHANGED <<procAlive, autelis, ignoresolar, start, pollDue, threads, threadMonitor,
                   budget>>

\* update_node_states, lines 359-363: one Controller driver
UnsController ==
    /\ procAlive /\ poll.pc = "uns_ctl"
    /\ Apply("poll", WSetDriver(CONTROLLER, CtlDrivers[poll.i],
                                CtlValue(CtlNames[poll.i], ValueText(poll.snap, CtlNames[poll.i])),
                                poll.report))
    /\ poll' = IF poll.i < Len(CtlDrivers)
               THEN [poll EXCEPT !.i = poll.i + 1]
               ELSE [poll EXCEPT !.pc = "uns_eq", !.i = 1, !.k = 0]
    /\ UNCHANGED <<procAlive, autelis, ignoresolar, start, pollDue, threads, threadMonitor,
                   budget>>

\* UnsSkipElement with a node created for the element instead of the skip
UnsSkipElementCreates ==
    /\ procAlive /\ poll.pc = "uns_eq" /\ poll.k = 0
    /\ EquipOrder[poll.i] \notin Live
    /\ Apply("poll", WAddNode(EquipOrder[poll.i], currentTempUnit))
    /\ poll' = AfterElement(poll.i)
    /\ UNCHANGED <<procAlive, autelis, ignoresolar, start, pollDue, threads, threadMonitor,
                   budget>>

\* update_node_states, lines 366-372: an element without a node is passed over
UnsSkipElement ==
    /\ procAlive /\ poll.pc = "uns_eq" /\ poll.k = 0
    /\ EquipOrder[poll.i] \notin Live
    /\ poll' = AfterElement(poll.i)
    /\ UNCHANGED <<procAlive, autelis, ignoresolar, currentTempUnit, ctl, nodes, hub, out,
                   start, pollDue, threads, threadMonitor, budget>>

\* the write of statement k of a temp control element: ST, CLISPH, then the
\* two drivers of update_mode_drivers
TempElementWrite(a, s, k, report) ==
    CASE k = 0 -> WSetDriver(a, "ST", ToInt(ValueText(s, CurrentTempName(a))), report)
      [] k = 1 -> WSetDriver(a, "CLISPH", ToInt(ValueText(s, SetPointName(a))), report)
      [] k = 2 -> WSetDriver(a, "CLIMD", ModeDrivers(EquipText(s, a))[1], report)
      [] k = 3 -> WSetDriver(a, "CLIHCS", ModeDrivers(EquipText(s, a))[2], report)

\* update_node_states, lines 377-395: a temp control element, one statement
UnsTempElement ==
    LET a == EquipOrder[poll.i]
        parses == /\ IsInt(ValueText(poll.snap, SetPointName(a)))
                  /\ IsInt(ValueText(poll.snap, CurrentTempName(a)))
        last == \/ poll.k = 3
                \/ poll.k = 1 /\ ModeDrivers(EquipText(poll.snap, a)) = <<>>
    IN /\ procAlive /\ poll.pc = "uns_eq"
       /\ a \in Live /\ a \in TempAddrs
       /\ IF poll.k = 0 /\ ~ parses
          THEN /\ poll' = PassEnd("raised")
               /\ UNCHANGED shared
          ELSE /\ Apply("poll", TempElementWrite(a, poll.snap, poll.k, poll.report))
               /\ poll' = IF last THEN AfterElement(poll.i)
                          ELSE [poll EXCEPT !.k = poll.k + 1]
       /\ UNCHANGED <<procAlive, autelis, ignoresolar, start, pollDue, threads, threadMonitor,
                      budget>>

\* update_node_states, line 400: a pump or aux relay element
UnsEquipElement ==
    LET a == EquipOrder[poll.i]
        state == EquipText(poll.snap, a)
    IN /\ procAlive /\ poll.pc = "uns_eq" /\ poll.k = 0
       /\ a \in Live /\ a \notin TempAddrs
       /\ IF IsInt(state)
          THEN /\ Apply("poll", WSetDriver(a, "ST", ToInt(state), poll.report))
               /\ poll' = AfterElement(poll.i)
          ELSE /\ poll' = PassEnd("raised")
               /\ UNCHANGED shared
       /\ UNCHANGED <<procAlive, autelis, ignoresolar, start, pollDue, threads, threadMonitor,
                      budget>>

\* NeedsRestart with the liveness test the wrong way round
NeedsRestartWhenAlive == threadMonitor # 0 /\ threads[threadMonitor].st = "alive"
\* longPoll, line 249: the liveness check of the monitor thread
NeedsRestart == threadMonitor # 0 /\ threads[threadMonitor].st # "alive"
LongPollCheck ==
    /\ procAlive /\ poll.pc = "idle"
    /\ poll' = IF NeedsRestart THEN [NoPoll EXCEPT !.pc = "lp_new"] ELSE poll
    /\ UNCHANGED <<procAlive, autelis, ignoresolar, currentTempUnit, ctl, nodes, hub, out,
                   start, pollDue, threads, threadMonitor, budget>>

\* longPoll, line 254
LongPollNewThread ==
    /\ procAlive /\ poll.pc = "lp_new"
    /\ NewThread
    /\ poll' = [poll EXCEPT !.pc = "lp_daemon"]
    /\ UNCHANGED <<procAlive, autelis, ignoresolar, currentTempUnit, ctl, nodes, hub, out,
                   start, pollDue, budget>>

\* longPoll, line 255
LongPollSetDaemon ==
    /\ procAlive /\ poll.pc = "lp_daemon"
    /\ poll' = IF DaemonRaises THEN NoPoll ELSE [poll EXCEPT !.pc = "lp_start"]
    /\ UNCHANGED <<procAlive, autelis, ignoresolar, currentTempUnit, ctl, nodes, hub, out,
                   start, pollDue, threads, threadMonitor, budget>>

\* longPoll, line 256
LongPollStartThread ==
    /\ procAlive /\ poll.pc = "lp_start"
    /\ IF StartRaises THEN threads' = threads ELSE ThreadStart
    /\ poll' = NoPoll
    /\ UNCHANGED <<procAlive, autelis, ignoresolar, currentTempUnit, ctl, nodes, hub, out,
                   start, pollDue, threadMonitor, budget>>

\* time passes: the polling interval has elapsed since lastPoll
Tick ==
    /\ procAlive /\ ~ pollDue
    /\ pollDue' = TRUE
    /\ UNCHANGED <<procAlive, autelis, ignoresolar, currentTempUnit, ctl, nodes, hub, out,
                   start, poll, threads, threadMonitor, budget>>

\* ------------------------------------------------ the status monitor thread
\* the Controller driver of a system element name
CtlDriverOf(name) ==
    CASE name = "runstate" -> "GV0"
      [] name = "opmode" -> "GV1"
      [] name = "vbat" -> "BATLVL"
      [] name = "lowbat" -> "GV2"
      [] name = "airtemp" -> "CLITEMP"

\* the node and driver of a setpoint or temperature element name
\* (pooltemp is routed apart: it has two nodes)
NodeOf(name) ==
    CASE name = "poolsp" -> "poolht"
      [] name = "poolsp2" -> "poolht2"
      [] name = "spasp" -> "spaht"
      [] name = "spatemp" -> "spaht"
      [] name = "solartemp" -> "solarht"
\* DriverOf with the cool setpoint in place of the heat setpoint
DriverOfCoolSetpoint(name) == IF name \in {"poolsp", "poolsp2", "spasp"} THEN "CLISPC" ELSE "ST"
DriverOf(name) == IF name \in {"poolsp", "poolsp2", "spasp"} THEN "CLISPH" ELSE "ST"

\* The outcome of one step of set_node_state: the write it makes, where the
\* callback stands afterwards (pc "returned": it has returned retVal) and
\* retVal so far ("raised": int() or float() raised).
Routed(w, pc, mig, ret) == [w |-> w, pc |-> pc, mig |-> mig, ret |-> ret]
Raised == Routed(WNone, "returned", NoMig, "raised")

\* RouteToNode with retVal set whether or not the node exists
RouteToNodeAlwaysHandled(a, driver, value, pc, ret) ==
    IF a \in Live
    THEN IF IsInt(value)
         THEN Routed(WSetDriver(a, driver, ToInt(value), TRUE), pc, NoMig, "true")
         ELSE Raised
    ELSE Routed(WNone, pc, NoMig, "true")

\* if a in self.nodes: self.nodes[a].setDriver(driver, int(value)); retVal = True
RouteToNode(a, driver, value, pc, ret) ==
    IF a \in Live
    THEN IF IsInt(value)
         THEN Routed(WSetDriver(a, driver, ToInt(value), TRUE), pc, NoMig, "true")
         ELSE Raised
    ELSE Routed(WNone, pc, NoMig, ret)

\* set_node_state(element, value), from its first statement
RouteFirst(element, value) ==
    CASE element \in {"runstate", "opmode", "vbat", "lowbat", "airtemp"} ->
            IF IsInt(value)
            THEN Routed(WSetDriver(CONTROLLER, CtlDriverOf(element),
                                   CtlValue(element, value), TRUE), "returned", NoMig, "true")
            ELSE Raised
      [] element \in {"model", "dip"} -> Routed(WNone, "returned", NoMig, "true")
      [] element \in {"poolsp", "poolsp2", "spasp", "spatemp", "solartemp"} ->
            RouteToNode(NodeOf(element), DriverOf(element), value, "returned", "false")
      [] element = "pooltemp" ->
            RouteToNode("poolht", "ST", value, "pt2", "false")
      [] element = "tempunits" ->
            IF UnitDiffers(value)
            THEN Routed(WNone, "ctu", EnterChangeTempUnits(value), "true")
            ELSE Routed(WNone, "returned", NoMig, "true")
      [] element \in TempAddrs ->
            IF element \in Live
            THEN IF ModeDrivers(value) = <<>>
                 THEN Routed(WNone, "returned", NoMig, "true")
                 ELSE Routed(WSetDriver(element, "CLIMD", ModeDrivers(value)[1], TRUE),
                             "md2", NoMig, "true")
            ELSE Routed(WNone, "returned", NoMig, "false")
      [] OTHER -> RouteToNode(element, "ST", value, "returned", "false")

\* RouteStep without the write of pooltemp to poolht2
RouteStepOnePool(f) ==
    CASE f.pc = "pt2" -> Routed(WNone, "returned", NoMig, f.ret)
      [] f.pc = "md2" ->
            Routed(WSetDriver(f.ev[1], "CLIHCS", ModeDrivers(f.ev[2])[2], TRUE),
                   "returned", NoMig, "true")
      [] f.pc = "ctu" ->
            LET m == MigNext(f.mig)
            IN IF m = RaisedMig THEN [Raised EXCEPT !.w = MigWrite(f.mig)]
               ELSE Routed(MigWrite(f.mig), IF m = NoMig THEN "returned" ELSE "ctu", m, "true")

\* set_node_state, from a later statement of the call the thread is in
RouteStep(f) ==
    CASE f.pc = "pt2" ->
            RouteToNode("poolht2", "ST", f.ev[2], "returned", f.ret)
      [] f.pc = "md2" ->
            Routed(WSetDriver(f.ev[1], "CLIHCS", ModeDrivers(f.ev[2])[2], TRUE),
                   "returned", NoMig, "true")
      [] f.pc = "ctu" ->
            LET m == MigNext(f.mig)
            IN IF m = RaisedMig THEN [Raised EXCEPT !.w = MigWrite(f.mig)]
               ELSE Routed(MigWrite(f.mig), IF m = NoMig THEN "returned" ELSE "ctu", m, "true")

\* the thread after it has ended: a Thread object that is not the handle is garbage
Ended(t, ret) ==
    IF t = threadMonitor THEN [Unborn EXCEPT !.st = "dead", !.ret = ret] ELSE Unborn

\* the thread after a step of the callback; an exception ends the thread
AfterRoute(t, e, r) ==
    IF r.ret = "raised" THEN Ended(t, "raised")
    ELSE [st |-> "alive", pc |-> r.pc, ev |-> e, mig |-> r.mig, ret |-> r.ret]

\* status_listener: one event is read from the stream and handed to the callback
ListenerRecv(t) ==
    /\ procAlive /\ threads[t].st = "alive" /\ threads[t].pc = "recv"
    /\ budget.events > 0
    /\ \E e \in Events :
          LET r == RouteFirst(e[1], e[2])
          IN /\ Apply("listener", r.w)
             /\ threads' = [threads EXCEPT ![t] = AfterRoute(t, e, r)]
    /\ budget' = [budget EXCEPT !.events = @ - 1]
    /\ UNCHANGED <<procAlive, autelis, ignoresolar, start, poll, pollDue, threadMonitor>>

\* the callback goes on
ListenerStep(t) ==
    /\ procAlive /\ threads[t].st = "alive" /\ threads[t].pc \in {"pt2", "md2", "ctu"}
    /\ LET r == RouteStep(threads[t])
       IN /\ Apply("listener", r.w)
          /\ threads' = [threads EXCEPT ![t] = AfterRoute(t, threads[t].ev, r)]
    /\ UNCHANGED <<procAlive, autelis, ignoresolar, start, poll, pollDue, threadMonitor,
                   budget>>

\* status_listener: the callback has returned and the next event is awaited
ListenerLoop(t) ==
    /\ procAlive /\ threads[t].st = "alive" /\ threads[t].pc = "returned"
    /\ threads' = [threads EXCEPT ![t] = [Created EXCEPT !.st = "alive", !.pc = "recv"]]
    /\ UNCHANGED <<procAlive, autelis, ignoresolar, currentTempUnit, ctl, nodes, hub, out,
                   start, poll, pollDue, threadMonitor, budget>>

\* status_listener ends: the connection dropped or could not be decoded
ListenerDies(t) ==
    /\ procAlive /\ threads[t].st = "alive" /\ threads[t].pc = "recv"
    /\ budget.drops
    /\ threads' = [threads EXCEPT ![t] = Ended(t, "-")]
    /\ UNCHANGED <<procAlive, autelis, ignoresolar, currentTempUnit, ctl, nodes, hub, out,
                   start, poll, pollDue, threadMonitor, budget>>

\* ---------------------------------------------------------- specification
Init ==
    /\ procAlive = TRUE
    /\ autelis = FALSE
    /\ ignoresolar = FALSE
    /\ currentTempUnit = "F"
    /\ ctl = NewController
    /\ nodes = [a \in Addrs |-> NoNode]
    /\ hub = [a \in Addrs \cup {CONTROLLER} |-> NoDef]
    /\ out = NoMsg
    /\ start = NoStart
    /\ poll = NoPoll
    /\ pollDue = TRUE
    /\ threads = [t \in Slots |-> Unborn]
    /\ threadMonitor = 0
    /\ budget \in Budgets

StartThread ==
    \/ StartConfig
    \/ DiscoverFails
    \/ DiscoverFetch
    \/ DiscoverSetUnit
    \/ DiscoverElement
    \/ StartNewThread
    \/ StartSetDaemon
    \/ StartStartThread

PollerThread ==
    \/ ShortPollIdle
    \/ ShortPoll
    \/ ShortPollReturn
    \/ Query
    \/ QueryReport
    \/ UnsNoStatus
    \/ UnsFetch
    \/ UnsUnits
    \/ UnsChangeTempUnits
    \/ UnsController
    \/ UnsSkipElement
    \/ UnsTempElement
    \/ UnsEquipElement
    \/ LongPollCheck
    \/ LongPollNewThread
    \/ LongPollSetDaemon
    \/ LongPollStartThread

MonitorThread(t) ==
    \/ ListenerRecv(t)
    \/ ListenerStep(t)
    \/ ListenerLoop(t)
    \/ ListenerDies(t)

Next ==
    \/ StartThread
    \/ PollerThread
    \/ \E t \in Slots : MonitorThread(t)
    \/ Tick

Spec == Init /\ [][Next]_vars

\* The supervision of the monitor thread alone: a run without passes, in
\* which the connection may drop at any time and an event may arrive.  The poller is
\* scheduled fairly: a longPoll that can take its next statement takes it.
InitSupervisor == Init /\ budget.drops

NextSupervisor ==
    \/ StartThread
    \/ LongPollCheck
    \/ LongPollNewThread
    \/ LongPollSetDaemon
    \/ LongPollStartThread
    \/ \E t \in Slots : MonitorThread(t)

SupervisorSpec ==
    /\ InitSupervisor
    /\ [][NextSupervisor]_vars
    /\ WF_vars(LongPollCheck)
    /\ WF_vars(LongPollNewThread)
    /\ WF_vars(LongPollSetDaemon)
    /\ WF_vars(LongPollStartThread)

\* ------------------------------------------------------------- properties
\* the entity model and the node definitions the hub holds
model == <<nodes, ctl, currentTempUnit, hub>>

PollerSteps == poll' # poll
ListenerSteps(t) == threads'[t] # threads[t]

\* the poller has made a write of its pass and has another one to make
PollBetweenWrites ==
    \/ poll.pc = "uns_ctl" /\ poll.i > 1
    \/ poll.pc = "uns_eq" /\ poll.k > 0
    \/ poll.pc = "ctu" /\ poll.mig.ph \in {"upd", "cupd", "cunit"}

\* monitor thread t has made a write of its callback and has another one to make
ListenerBetweenWrites(t) ==
    /\ threads[t].st = "alive"
    /\ \/ threads[t].pc = "md2"
       \/ threads[t].pc = "ctu" /\ threads[t].mig.ph \in {"upd", "cupd", "cunit"}

\* C1: a reconcile pass and a delta event have the model to themselves: no
\* step of a callback changes the model between two writes of a pass, and no
\* step of a pass changes it between two writes of a callback.
C1_ExclusiveAccess ==
    [][ \A t \in Slots :
          /\ (PollBetweenWrites /\ ListenerSteps(t)) => UNCHANGED model
          /\ (ListenerBetweenWrites(t) /\ PollerSteps) => UNCHANGED model ]_vars

\* C2: in every reachable state at most one monitor thread is alive
C2_OneMonitor == Cardinality(AliveThreads) <= 1

\* C3: after a successful startup a monitor thread that has ended is followed
\* by a running one, and the thread that ended is never the one that runs
\* again: the handle is given a new Thread object.
C3_Relaunch ==
    /\ (start.pc = "done" /\ threadMonitor # 0 /\ threads[threadMonitor].st = "dead")
          ~> (threadMonitor # 0 /\ threads[threadMonitor].st = "alive")
    /\ [][\A t \in Slots : threads[t].st = "dead" => threads'[t].st # "alive"]_vars

C3_Relaunched ==
    /\ start.pc = "done" /\ poll.pc = "idle"
    /\ threadMonitor = 2 /\ threads[2].st = "alive" /\ threads[1].st = "unborn"

\* the kind of a node
KindOf(n) ==
    IF n = NoNode THEN "none"
    ELSE IF n.id \in {"TEMP_CONTROL", "TEMP_CONTROL_C"} THEN "TempControl"
    ELSE IF n.id = "EQUIPMENT" THEN "Equipment"
    ELSE "other"

\* C4: a node, once created, stays at its address with its kind; a node is
\* created only at an address that has none; the kind of a node is fixed by
\* its address, whatever unit its definition id names.
C4_StableIdentity ==
    [][ /\ \A a \in Addrs :
              /\ nodes[a] # NoNode => KindOf(nodes'[a]) = KindOf(nodes[a])
              /\ nodes'[a] # NoNode =>
                    KindOf(nodes'[a]) = IF a \in TempAddrs THEN "TempControl" ELSE "Equipment"
        /\ (start.pc = "disc_eq" /\ start' # start) => nodes[EquipOrder[start.i]] = NoNode
      ]_vars

C4_Migrated ==
    /\ poll.pc = "ctu" /\ poll.mig.ph = "upd" /\ poll.mig.i = 2
    /\ nodes["poolht"].id = "TEMP_CONTROL_C" /\ hub["poolht"].id = "TEMP_CONTROL"
    /\ "pump1" \in Live

\* the driver values of the nodes and of the Controller, without their units
ValuesOf(ns) == [a \in Addrs |-> IF ns[a] = NoNode THEN NoNode
                                 ELSE [ns[a] EXCEPT !.id = "-", !.uom = 0]]
CtlValuesOf(c) == [c EXCEPT !.uom = 0]

\* the state change_temp_units(u) is to leave behind
MigratedTo(u, ns, c, h, unit) ==
    /\ \A a \in Addrs :
          KindOf(ns[a]) = "TempControl" =>
             /\ ns[a].id = TempIdOf(u) /\ ns[a].uom = UomOf(u)
             /\ h[a] = [id |-> TempIdOf(u), uom |-> UomOf(u)]
    /\ c.uom = UomOf(u)
    /\ h[CONTROLLER] = [id |-> "CONTROLLER", uom |-> UomOf(u)]
    /\ unit = u

\* C5: when change_temp_units(u) returns, every TempControl node and the
\* Controller carry the unit u and have been announced to the hub with it,
\* self.currentTempUnit is u, and no statement of the migration has changed a
\* driver value or an Equipment node.
C5_MigrationComplete ==
    [][ /\ (poll.pc = "ctu" /\ PollerSteps) =>
              /\ ValuesOf(nodes') = ValuesOf(nodes) /\ CtlValuesOf(ctl') = CtlValuesOf(ctl)
              /\ (poll.mig.ph = "cunit" =>
                     MigratedTo(poll.mig.tgt, nodes', ctl', hub', currentTempUnit'))
        /\ \A t \in Slots :
              (threads[t].st = "alive" /\ threads[t].pc = "ctu" /\ ListenerSteps(t)) =>
                 /\ ValuesOf(nodes') = ValuesOf(nodes) /\ CtlValuesOf(ctl') = CtlValuesOf(ctl)
                 /\ (threads[t].mig.ph = "cunit" =>
                        MigratedTo(threads[t].mig.tgt, nodes', ctl', hub', currentTempUnit'))
      ]_vars

\* the units of the nodes, of the Controller and of what the hub holds
meta == <<[a \in Addrs |-> IF nodes[a] = NoNode THEN NoDef
                           ELSE [id |-> nodes[a].id, uom |-> nodes[a].uom]],
          ctl.uom, hub, currentTempUnit>>

\* C6: a pass whose status document names the unit self.currentTempUnit has
\* does not enter change_temp_units and none of its statements changes a
\* unit or announces a node; a tempunits event with that unit returns True
\* at once, with nothing written.
C6_NoOpWhenEqual ==
    [][ /\ (poll.pc = "uns_units" /\ poll.snap.tempunits = currentTempUnit /\ PollerSteps) =>
              poll'.pc # "ctu" /\ UNCHANGED <<model, out>>
        /\ (poll.pc \in {"uns_ctl", "uns_eq"} /\ PollerSteps) =>
              meta' = meta /\ (out' = out \/ out'.kind = "report")
        /\ \A t \in Slots :
              (/\ threads[t].st = "alive" /\ threads[t].pc = "recv"
               /\ threads'[t].ev = <<"tempunits", currentTempUnit>>) =>
                 /\ threads'[t].pc = "returned" /\ threads'[t].ret = "true"
                 /\ UNCHANGED <<model, out>>
      ]_vars

C6_EqualUnits ==
    /\ currentTempUnit = "C" /\ "poolht" \in Live
    /\ poll.pc = "uns_ctl" /\ poll.i = 1 /\ poll.snap.tempunits = "C"
    /\ \E t \in Slots : threads[t].ev = <<"tempunits", "C">> /\ threads[t].pc = "returned"

C8_BlankKept ==
    [][ (poll.pc = "uns_eq" /\ PollerSteps) =>
           LET a == EquipOrder[poll.i]
           IN (a \in Live /\ EquipText(poll.snap, a) = Blank) =>
                 /\ nodes'[a] = nodes[a]
                 /\ ~ (poll'.pc = "ret" /\ poll'.res = "raised")
      ]_vars

\* C9, as stated: a pass that gets no status document changes nothing and
\* sends nothing, and the poller returns to take a later tick
C9_SkippedKeepsAll ==
    [][ /\ (start.pc = "done" /\ poll.pc = "uns_fetch" /\ poll'.pc = "ret") =>
              UNCHANGED <<model, out>>
        /\ (poll.pc = "ret" /\ poll.res = "skipped" /\ PollerSteps) => poll' = NoPoll
      ]_vars

\* C9, amended: a pass that gets no status document sets GV0 of the
\* Controller to 0, reported to the hub when the pass reports, and changes
\* nothing else; the poller returns to take a later tick
C9_SkippedClearsRunState ==
    [][ /\ (start.pc = "done" /\ poll.pc = "uns_fetch" /\ poll'.pc = "ret") =>
              /\ poll'.res = "skipped"
              /\ ctl' = [ctl EXCEPT !.GV0 = 0]
              /\ UNCHANGED <<nodes, hub, currentTempUnit>>
              /\ out' = IF poll.report
                        THEN [kind |-> "report", by |-> "poll", addr |-> CONTROLLER,
                              driver |-> "GV0", value |-> 0]
                        ELSE out
        /\ (poll.pc = "ret" /\ poll.res = "skipped" /\ PollerSteps) => poll' = NoPoll
      ]_vars

C9_Skipped ==
    /\ poll.pc = "ret" /\ poll.res = "skipped" /\ poll.op = "shortPoll"
    /\ start.pc = "done" /\ "pump1" \in Live /\ nodes["pump1"].ST = 1
    /\ ctl.GV0 = 0 /\ ctl.GV1 = 1 /\ out.driver = "GV0"

\* C10: once discover_nodes has found no status document nothing goes on: no
\* node, no monitor thread, and the poller begins no pass
C10_FatalStops ==
    /\ [](start.pc = "exited" => Live = {} /\ threadMonitor = 0)
    /\ [][(start.pc = "exited" /\ poll.pc = "idle") => poll'.pc = "idle"]_vars

\* monitor thread t takes the event it has read to the callback
Delivers(t) == threads[t].st = "alive" /\ threads[t].pc = "recv" /\ ListenerSteps(t)

\* C11: a pooltemp event writes its value to ST of poolht when that node
\* exists and then to ST of poolht2 when that node exists (ST is the driver a
\* pass writes the current temperature to); neither statement writes
\* anything else, and with neither node the callback returns with nothing
\* changed.
C11_PoolTempFanOut ==
    [][ \A t \in Slots :
          /\ (Delivers(t) /\ threads'[t].ev[1] = "pooltemp") =>
                /\ nodes' = IF "poolht" \in Live
                            THEN [nodes EXCEPT !["poolht"].ST = ToInt(threads'[t].ev[2])]
                            ELSE nodes
                /\ UNCHANGED <<ctl, hub, currentTempUnit>>
                /\ threads'[t].st = "alive" /\ threads'[t].pc = "pt2"
          /\ (threads[t].st = "alive" /\ threads[t].pc = "pt2" /\ ListenerSteps(t)) =>
                /\ nodes' = IF "poolht2" \in Live
                            THEN [nodes EXCEPT !["poolht2"].ST = ToInt(threads[t].ev[2])]
                            ELSE nodes
                /\ UNCHANGED <<ctl, hub, currentTempUnit>>
                /\ threads'[t].st = "alive" /\ threads'[t].pc = "returned"
                /\ ({"poolht", "poolht2"} \cap Live = {} => out' = out)
      ]_vars

C11_BothPools ==
    \E t \in Slots :
       /\ threads[t].pc = "returned" /\ threads[t].ev = <<"pooltemp", "7">>
       /\ nodes["poolht"] # NoNode /\ nodes["poolht"].ST = 7
       /\ nodes["poolht2"] # NoNode /\ nodes["poolht2"].ST = 7
       /\ nodes["poolht"].CLISPH = 0

\* a setpoint event has been taken to the callback by thread t, which goes on:
\* the node a of the setpoint has CLISPH set to the value and nothing else is
\* written, or there is no such node, nothing is written and the callback
\* returns absent
SetpointRouted(t, absent) ==
    LET name == threads'[t].ev[1]
        a == CASE name = "poolsp" -> "poolht"
               [] name = "poolsp2" -> "poolht2"
               [] name = "spasp" -> "spaht"
    IN /\ UNCHANGED <<ctl, hub, currentTempUnit>>
       /\ threads'[t].pc = "returned"
       /\ IF a \in Live
          THEN /\ nodes' = [nodes EXCEPT ![a].CLISPH = ToInt(threads'[t].ev[2])]
               /\ threads'[t].ret = "true"
          ELSE /\ nodes' = nodes /\ out' = out
               /\ threads'[t].ret = absent

\* C12, as stated: a setpoint event for a node that does not exist changes
\* nothing and the callback returns True
C12_AbsentHandled ==
    [][ \A t \in Slots :
          (Delivers(t) /\ threads'[t].ev[1] \in {"poolsp", "poolsp2", "spasp"}) =>
             SetpointRouted(t, "true") ]_vars

\* C12, amended: a poolsp, poolsp2 or spasp event sets CLISPH of poolht,
\* poolht2 or spaht and nothing else, and the callback returns True; for a
\* node that does not exist it changes nothing and the callback returns False
C12_AbsentNotHandled ==
    [][ \A t \in Slots :
          (Delivers(t) /\ threads'[t].ev[1] \in {"poolsp", "poolsp2", "spasp"}) =>
             SetpointRouted(t, "false") ]_vars

C12_SetpointAbsent ==
    \E t \in Slots :
       /\ threads[t].pc = "returned" /\ threads[t].ev = <<"poolsp", "7">>
       /\ threads[t].ret = "false"
       /\ "poolht" \notin Live /\ "spaht" \in Live /\ nodes["spaht"].CLISPH = 0

\* the model holds every value, and the unit, that a pass with the status
\* document s writes
Agrees(s) ==
    /\ currentTempUnit = s.tempunits
    /\ \A j \in 1..5 :
          LET name == <<"runstate", "opmode", "lowbat", "vbat", "airtemp">>[j]
              text == ValueText(s, name)
          IN /\ IsInt(text)
             /\ ctl[<<"GV0", "GV1", "GV2", "BATLVL", "CLITEMP">>[j]]
                   = IF name = "vbat" THEN ToInt(text) * VBAT_CONST ELSE ToInt(text)
    /\ \A a \in Live :
          IF a \in {"poolht", "poolht2", "spaht", "solarht"}
          THEN LET sp == ValueText(s, IF a = "spaht" THEN "spasp"
                                      ELSE IF a = "poolht2" THEN "poolsp2" ELSE "poolsp")
                   ct == ValueText(s, IF a = "spaht" THEN "spatemp"
                                      ELSE IF a = "solarht" THEN "solartemp" ELSE "pooltemp")
                   state == EquipText(s, a)
               IN /\ IsInt(sp) /\ IsInt(ct)
                  /\ nodes[a].ST = ToInt(ct) /\ nodes[a].CLISPH = ToInt(sp)
                  /\ state = "0" => nodes[a].CLIMD = 0 /\ nodes[a].CLIHCS = 0
                  /\ state = "1" => nodes[a].CLIMD = 1 /\ nodes[a].CLIHCS = 0
                  /\ state = "2" => nodes[a].CLIMD = 1 /\ nodes[a].CLIHCS = 1
          ELSE IsInt(EquipText(s, a)) /\ nodes[a].ST = ToInt(EquipText(s, a))

\* the statement of the pass at poll writes nothing but the value of the
\* status document to the driver it is at
WritesDocument ==
    LET s == poll.snap
        a == EquipOrder[poll.i]
        sp == ValueText(s, IF a = "spaht" THEN "spasp"
                           ELSE IF a = "poolht2" THEN "poolsp2" ELSE "poolsp")
        ct == ValueText(s, IF a = "spaht" THEN "spatemp"
                           ELSE IF a = "solarht" THEN "solartemp" ELSE "pooltemp")
        state == EquipText(s, a)
        mode == IF state = "0" THEN 0 ELSE 1
        hcs == IF state = "2" THEN 1 ELSE 0
    IN /\ UNCHANGED <<hub, currentTempUnit>>
       /\ poll.pc = "uns_ctl" =>
             /\ nodes' = nodes
             /\ \A j \in 1..5 :
                   poll.i = j =>
                      LET name == <<"runstate", "opmode", "lowbat", "vbat", "airtemp">>[j]
                          text == ValueText(s, name)
                      IN ctl' = [ctl EXCEPT ![<<"GV0", "GV1", "GV2", "BATLVL", "CLITEMP">>[j]]
                                       = IF name = "vbat" THEN ToInt(text) * VBAT_CONST
                                         ELSE ToInt(text)]
       /\ poll.pc = "uns_eq" =>
             /\ ctl' = ctl
             /\ nodes' =
                   IF a \notin Live THEN nodes
                   ELSE IF a \notin {"poolht", "poolht2", "spaht", "solarht"}
                   THEN IF IsInt(state) THEN [nodes EXCEPT ![a].ST = ToInt(state)] ELSE nodes
                   ELSE IF ~ (IsInt(sp) /\ IsInt(ct)) THEN nodes
                   ELSE IF poll.k = 0 THEN [nodes EXCEPT ![a].ST = ToInt(ct)]
                   ELSE IF poll.k = 1 THEN [nodes EXCEPT ![a].CLISPH = ToInt(sp)]
                   ELSE IF poll.k = 2 THEN [nodes EXCEPT ![a].CLIMD = mode]
                   ELSE [nodes EXCEPT ![a].CLIHCS = hcs]

\* C13: a pass creates no node and each of its statements writes the value
\* of the status document, whatever the model held; a pass that does not
\* report, on a model that already holds what its status document says (as
\* after a pass with the same document), does not enter change_temp_units
\* and changes and sends nothing at any statement.
C13_Idempotent ==
    [][ (PollerSteps /\ poll.pc \in {"uns_units", "ctu", "uns_ctl", "uns_eq"}) =>
           /\ Live' = Live
           /\ poll.pc \in {"uns_ctl", "uns_eq"} => WritesDocument
           /\ (poll.pc # "ctu" /\ ~ poll.report /\ Agrees(poll.snap)) =>
                 /\ UNCHANGED <<model, out>>
                 /\ poll'.pc \in {"uns_ctl", "uns_eq", "ret"}
                 /\ poll'.pc = "ret" => poll'.res = "ok"
      ]_vars

C13_SecondPass ==
    /\ poll.pc = "uns_eq" /\ poll.op = "query" /\ Agrees(poll.snap) /\ budget.polls = 0
    /\ ctl.GV0 = 2 /\ currentTempUnit = "C" /\ {"pump1", "poolht"} \subseteq Live
    /\ out.kind = "report" /\ out.by = "poll"

\* C14: update_mode_drivers writes CLIMD then CLIHCS: 0 and 0 for the state
\* "0", 1 and 0 for "1", 1 and 1 for "2", and writes nothing for any other
\* state, blank included; this is so in a pass and in the callback, and an
\* event named after a temp control node writes no other driver.
C14_ModeDerivation ==
    [][ LET known == {"0", "1", "2"}
            md(state) == IF state = "0" THEN 0 ELSE 1
            hcs(state) == IF state = "2" THEN 1 ELSE 0
        IN /\ (PollerSteps /\ poll.pc = "uns_eq"
                  /\ EquipOrder[poll.i] \in Live \cap {"poolht", "poolht2", "spaht", "solarht"}) =>
                 LET a == EquipOrder[poll.i]
                     state == EquipText(poll.snap, a)
                 IN /\ poll.k = 1 => (poll'.pc = "uns_eq" /\ poll'.i = poll.i /\ poll'.k = 2)
                                        = (state \in known)
                    /\ poll.k = 2 => /\ state \in known
                                     /\ nodes' = [nodes EXCEPT ![a].CLIMD = md(state)]
                                     /\ poll'.k = 3
                    /\ poll.k = 3 => /\ state \in known
                                     /\ nodes' = [nodes EXCEPT ![a].CLIHCS = hcs(state)]
           /\ \A t \in Slots :
                 /\ (Delivers(t) /\ threads'[t].ev[1] \in {"poolht", "poolht2", "spaht", "solarht"}) =>
                       LET a == threads'[t].ev[1]
                           state == threads'[t].ev[2]
                       IN /\ UNCHANGED <<ctl, hub, currentTempUnit>>
                          /\ IF a \in Live /\ state \in known
                             THEN /\ nodes' = [nodes EXCEPT ![a].CLIMD = md(state)]
                                  /\ threads'[t].pc = "md2"
                             ELSE /\ nodes' = nodes /\ out' = out
                                  /\ threads'[t].pc = "returned"
                 /\ (threads[t].st = "alive" /\ threads[t].pc = "md2" /\ ListenerSteps(t)) =>
                       /\ UNCHANGED <<ctl, hub, currentTempUnit>>
                       /\ nodes' = [nodes EXCEPT ![threads[t].ev[1]].CLIHCS = hcs(threads[t].ev[2])]
                       /\ threads'[t].pc = "returned"
      ]_vars

C14_Heating ==
    \E t \in Slots :
       /\ threads[t].pc = "returned" /\ threads[t].ev = <<"poolht", "2">>
       /\ "poolht" \in Live /\ nodes["poolht"].CLIMD = 1 /\ nodes["poolht"].CLIHCS = 1
       /\ nodes["poolht"].ST = 84 /\ nodes["poolht"].CLISPH = 85

\* C15: until discover_nodes has created the nodes, no statement of a
\* reporting pass and none of the callback writes a driver value or sends a
\* change notification
C15_DiscoveryFirst ==
    [][ (/\ start.pc \in {"init", "discover", "disc_unit", "disc_eq"}
         /\ \/ PollerSteps /\ poll.report
            \/ \E t \in Slots : ListenerSteps(t)) =>
           /\ ValuesOf(nodes') = ValuesOf(nodes)
           /\ CtlValuesOf(ctl') = CtlValuesOf(ctl)
           /\ (out' = out \/ out'.kind # "report")
      ]_vars

\* C16: change_temp_units is not entered for a unit self.currentTempUnit
\* already has, and a pass and the callback are never both inside it for the
\* same unit
C16_MigratesOnce ==
    /\ [][ /\ (PollerSteps /\ poll'.pc = "ctu" /\ poll.pc # "ctu") =>
                 poll'.mig.tgt # currentTempUnit
           /\ \A t \in Slots :
                 (ListenerSteps(t) /\ threads'[t].pc = "ctu" /\ threads[t].pc # "ctu") =>
                    threads'[t].mig.tgt # currentTempUnit
         ]_vars
    /\ [](\A t \in Slots :
             ~ (/\ poll.pc = "ctu"
                /\ threads[t].st = "alive" /\ threads[t].pc = "ctu"
                /\ threads[t].mig.tgt = poll.mig.tgt))

\* C17: once start() has returned, no pass and no call of the callback ends
\* by raising
C17_NoFault ==
    [][ start.pc = "done" =>
           /\ ~ (PollerSteps /\ poll'.pc = "ret" /\ poll'.res = "raised")
           /\ \A t \in Slots :
                 (threads[t].st = "alive" /\ ListenerSteps(t)) =>
                    threads'[t].ret # "raised"
      ]_vars

\* C18: an event whose name no branch of set_node_state recognises is looked
\* up by address: with such a node only its ST becomes int(value) and True is
\* returned; without one False is returned, nothing the callback reads or
\* writes has changed, and the thread awaits the next event as it did before
C18_ExactAddress ==
    [][ \A t \in Slots :
          /\ (Delivers(t) /\ threads'[t].ev[1] \in {"pump1", "aux9"}) =>
                LET a == threads'[t].ev[1]
                    v == threads'[t].ev[2]
                IN /\ threads'[t].pc = "returned"
                   /\ UNCHANGED <<ctl, currentTempUnit, hub>>
                   /\ IF a \in Live
                      THEN /\ nodes' = [nodes EXCEPT ![a].ST = ToInt(v)]
                           /\ threads'[t].ret = "true"
                      ELSE /\ UNCHANGED <<nodes, out>>
                           /\ threads'[t].ret = "false"
          /\ (/\ threads[t].st = "alive" /\ threads[t].pc = "returned"
              /\ threads[t].ev[1] \in {"pump1", "aux9"} /\ threads[t].ret = "false"
              /\ ListenerSteps(t)) =>
                /\ threads'[t] = [Created EXCEPT !.st = "alive", !.pc = "recv"]
                /\ UNCHANGED <<model, out>>
      ]_vars

\* an event for an address without a node has been answered with False while
\* another node exists
C18_Unmatched ==
    \E t \in Slots :
       /\ threads[t].st = "alive" /\ threads[t].pc = "returned"
       /\ threads[t].ev = <<"aux9", "1">> /\ threads[t].ret = "false"
       /\ Live # {}

\* C19: a pass whose status document names another unit than
\* self.currentTempUnit enters change_temp_units before it writes anything,
\* writes no driver value while it is in there, and when it goes on to its
\* first value write every TempControl node and the Controller carry the
\* document's unit, have been announced with it, and self.currentTempUnit is
\* that unit; the pass does not migrate again afterwards
C19_MigrateBeforeValues ==
    [][ /\ (poll.pc = "uns_units" /\ poll.snap.tempunits # currentTempUnit /\ PollerSteps) =>
              /\ poll'.pc = "ctu" /\ poll'.mig.tgt = poll.snap.tempunits
              /\ UNCHANGED <<model, out>>
        /\ (poll.pc = "ctu" /\ PollerSteps) =>
              /\ ValuesOf(nodes') = ValuesOf(nodes) /\ CtlValuesOf(ctl') = CtlValuesOf(ctl)
              /\ poll'.pc \in {"ctu", "uns_ctl", "ret"}
              /\ (poll'.pc = "uns_ctl" =>
                     MigratedTo(poll.snap.tempunits, nodes', ctl', hub', currentTempUnit'))
        /\ (poll.pc \in {"uns_ctl", "uns_eq"} /\ PollerSteps) => poll'.pc # "ctu"
      ]_vars

\* C20: when a pass that fetched a status document ends, every node whose
\* equipment element in the document is not blank holds the document's
\* values (an Equipment node its state in ST, a TempControl node the set
\* point and the reading of its address in CLISPH and ST, where the document
\* has them), and the Controller holds the run state, mode, low battery flag
\* and air temperature of the document
C20_PassResult ==
    [][ (PollerSteps /\ poll.pc \in {"ctu", "uns_ctl", "uns_eq"} /\ poll'.pc = "ret") =>
           LET s == poll.snap
               sp(a) == ValueText(s, CASE a = "poolht" -> "poolsp"
                                       [] a = "poolht2" -> "poolsp2"
                                       [] a = "spaht" -> "spasp"
                                       [] a = "solarht" -> "poolsp")
               ct(a) == ValueText(s, CASE a = "poolht" -> "pooltemp"
                                       [] a = "poolht2" -> "pooltemp"
                                       [] a = "spaht" -> "spatemp"
                                       [] a = "solarht" -> "solartemp")
           IN /\ ctl'.GV0 = ToInt(ValueText(s, "runstate"))
              /\ ctl'.GV1 = ToInt(ValueText(s, "opmode"))
              /\ ctl'.GV2 = ToInt(ValueText(s, "lowbat"))
              /\ ctl'.CLITEMP = ToInt(ValueText(s, "airtemp"))
              /\ \A a \in Addrs :
                    (nodes'[a] # NoNode /\ EquipText(s, a) # Blank) =>
                       IF a \in {"poolht", "poolht2", "spaht", "solarht"}
                       THEN /\ IsInt(sp(a)) => nodes'[a].CLISPH = ToInt(sp(a))
                            /\ IsInt(ct(a)) => nodes'[a].ST = ToInt(ct(a))
                       ELSE nodes'[a].ST = ToInt(EquipText(s, a))
      ]_vars

\* C21: only discover_nodes adds to self.nodes: no statement of a pass, of
\* change_temp_units, of the callback or of longPoll does; a pass goes past
\* an equipment element whose address is not in self.nodes with nothing
\* written or sent (solarht under ignoresolar and elements blank at discovery
\* among them); and longPoll leaves nodes, Controller, units and hub as they
\* are and sends nothing
C21_FixedNodes ==
    [][ /\ (PollerSteps \/ \E t \in Slots : ListenerSteps(t)) => Live' = Live
        /\ (/\ PollerSteps /\ poll.pc = "uns_eq" /\ poll.k = 0
            /\ nodes[EquipOrder[poll.i]] = NoNode) =>
              /\ UNCHANGED <<model, out>>
              /\ IF poll.i < NumEquip
                 THEN poll'.pc = "uns_eq" /\ poll'.i = poll.i + 1
                 ELSE poll'.pc = "ret" /\ poll'.res = "ok"
        /\ (PollerSteps /\ (poll'.pc = "lp_new" \/ poll.pc \in {"lp_new", "lp_daemon", "lp_start"})) =>
              UNCHANGED <<model, out>>
      ]_vars

\* a pass has ended after going past the solarht element of its document,
\* which is not blank, because ignoresolar kept the node from being created
C21_SolarSkipped ==
    /\ start.pc = "done" /\ ignoresolar
    /\ poll.pc = "ret" /\ poll.res = "ok"
    /\ EquipText(poll.snap, "solarht") = "3"
    /\ nodes["solarht"] = NoNode /\ nodes["pump1"] = NoNode
    /\ nodes["spaht"] # NoNode
    /\ nodes["spaht"].ST = ToInt(ValueText(poll.snap, "spatemp"))

====
